---- MODULE Spec2Model ----
(***************************************************************************)
(* Model of surikafka's Writer (src/src/writer.rs): a futures-0.1 Stream   *)
(* adapter that pulls String messages from an inner stream, sends each to  *)
(* a Kafka FutureProducer and yields () for every delivery it sees         *)
(* succeed.                                                                *)
(*                                                                         *)
(* Option<T> values are sequences of length 0 (None) or 1 (Some).          *)
(* Poll results are tags: "NotReady" = Ok(Async::NotReady),                *)
(* "ReadySome" = Ok(Async::Ready(Some(_))), "ReadyNone" =                  *)
(* Ok(Async::Ready(None)), "Err" = Err(_).                                 *)
(***************************************************************************)
EXTENDS Naturals, Sequences, FiniteSets

\* Longest script of the inner stream.
MaxUpstream == 3
\* Most calls of Writer::poll in one run.
MaxCalls == 8

\* The messages of tests::produces_messages.
Msgs == {"string1", "string2", "string3"}
\* The item of an inner-stream script at which inner.poll() returns Err(e).
UpstreamErr == "error"
\* The topic the Writer is constructed with.
Topic == "test_topic"
\* The timeout Writer::send passes to FutureProducer::send.
SendTimeout == 1000

None == <<>>
Some(x) == <<x>>

\* The four results of Stream::poll, under the names of the specification.
Suspend == "NotReady"
Yield == "ReadySome"
End == "ReadyNone"
Fail == "Err"

VARIABLES
    inner,        \* Writer.inner: the items the inner stream has yet to give
    avail,        \* whether the inner stream has its next event ready
    outstanding,  \* Writer.outstanding: Option<DeliveryFuture>, a handle
    deliveries,   \* Writer.producer: every record sent, its status, and
                  \* what became of its DeliveryFuture
    pulled,       \* the messages inner.poll() has given, in order
    calls         \* one record per completed call of Writer::poll

vars == <<inner, avail, outstanding, deliveries, pulled, calls>>

Range(s) == {s[i] : i \in 1..Len(s)}

\* The scripts of the inner stream: messages, each at most once, and errors
\* (a futures-0.1 stream may go on after an error); the end of the script is
\* the end of the stream.
Scripts ==
    LET All == UNION {[1..n -> Msgs \cup {UpstreamErr}] : n \in 0..MaxUpstream}
    IN {s \in All : \A i, j \in 1..Len(s) :
                       (i # j /\ s[i] \in Msgs) => s[i] # s[j]}

\* KeyGenerator::generate.
generate(msg) == <<"key", msg>>

\* FutureRecord::to, FutureRecord::key, FutureRecord::payload.
FutureRecordTo(topic) == [topic |-> topic, key |-> None, payload |-> None]
\* Variant: the key is set on a copy that is thrown away.
RecordKeyDiscarded(record, key) == record
RecordKey(record, key) == [record EXCEPT !.key = Some(key)]
\* Variant: the payload is set on a copy that is thrown away.
RecordPayloadDiscarded(record, msg) == record
RecordPayload(record, msg) == [record EXCEPT !.payload = Some(msg)]

\* FutureProducer::send: the producer takes the record; the DeliveryFuture it
\* returns is the index of the new delivery.
ProducerSend(ds, record, timeout) ==
    Append(ds, [record |-> record, timeout |-> timeout,
                status |-> "InFlight", fate |-> "held"])

\* Writer::send: the record built for msg, handed to the producer.
send(ds, msg) ==
    LET key == generate(msg)
        record == RecordPayload(RecordKey(FutureRecordTo(Topic), key), msg)
    IN ProducerSend(ds, record, SendTimeout)

\* DeliveryFuture::poll, by the status of the delivery.
FPoll(status) ==
    CASE status = "InFlight" -> "NotReady"
      [] status = "Delivered" -> "ReadyOk"
      [] status = "Failed" -> "ReadyErr"
      [] status = "Canceled" -> "Err"

\* inner.poll(), by the state of the inner stream.
InnerPoll(in, av) ==
    IF ~av THEN "NotReady"
    ELSE IF in = <<>> THEN "ReadyNone"
    ELSE IF Head(in) = UpstreamErr THEN "Err"
    ELSE "ReadySome"

\* Variant: a failed delivery leaves its future in self.outstanding and poll
\* goes on to the inner stream.
OutstandingReadyKeepsFailed(taken, fres) ==
    IF taken # None
    THEN CASE fres = "NotReady" -> [ret |-> Some("NotReady"), val |-> "NotReady", keep |-> None]
           [] fres = "Err" -> [ret |-> Some("Err"), val |-> "Err", keep |-> None]
           [] fres = "ReadyErr" -> [ret |-> None, val |-> "ReadyNone", keep |-> taken]
           [] fres = "ReadyOk" -> [ret |-> None, val |-> "ReadySome", keep |-> None]
    ELSE [ret |-> None, val |-> "ReadyNone", keep |-> None]

\* Variant: a failed delivery counts as no delivery, and poll goes on to the
\* inner stream in the same call.
OutstandingReadyFallsThrough(taken, fres) ==
    IF taken # None
    THEN CASE fres = "NotReady" -> [ret |-> Some("NotReady"), val |-> "NotReady", keep |-> None]
           [] fres = "Err" -> [ret |-> Some("Err"), val |-> "Err", keep |-> None]
           [] fres = "ReadyErr" -> [ret |-> None, val |-> "ReadyNone", keep |-> None]
           [] fres = "ReadyOk" -> [ret |-> None, val |-> "ReadySome", keep |-> None]
    ELSE [ret |-> None, val |-> "ReadyNone", keep |-> None]

\* Variant: a failed delivery is returned from poll as an error.
OutstandingReadyPropagates(taken, fres) ==
    IF taken # None
    THEN CASE fres = "NotReady" -> [ret |-> Some("NotReady"), val |-> "NotReady", keep |-> None]
           [] fres = "Err" -> [ret |-> Some("Err"), val |-> "Err", keep |-> None]
           [] fres = "ReadyErr" -> [ret |-> Some("Err"), val |-> "Err", keep |-> None]
           [] fres = "ReadyOk" -> [ret |-> None, val |-> "ReadySome", keep |-> None]
    ELSE [ret |-> None, val |-> "ReadyNone", keep |-> None]

\* Variant: a failed delivery is yielded like a successful one.
OutstandingReadyYieldsFailed(taken, fres) ==
    IF taken # None
    THEN CASE fres = "NotReady" -> [ret |-> Some("NotReady"), val |-> "NotReady", keep |-> None]
           [] fres = "Err" -> [ret |-> Some("Err"), val |-> "Err", keep |-> None]
           [] fres = "ReadyErr" -> [ret |-> None, val |-> "ReadySome", keep |-> None]
           [] fres = "ReadyOk" -> [ret |-> None, val |-> "ReadySome", keep |-> None]
    ELSE [ret |-> None, val |-> "ReadyNone", keep |-> None]

\* The block that computes outstanding_ready from the taken handle and the
\* result of f.poll(): ret is the value a try_ready! returns from poll with
\* (None when the block runs to its end), val the value of the block, keep
\* what is left in self.outstanding.
OutstandingReady(taken, fres) ==
    IF taken # None
    THEN CASE fres = "NotReady" -> [ret |-> Some("NotReady"), val |-> "NotReady", keep |-> None]
           [] fres = "Err" -> [ret |-> Some("Err"), val |-> "Err", keep |-> None]
           [] fres = "ReadyErr" -> [ret |-> None, val |-> "NotReady", keep |-> None]
           [] fres = "ReadyOk" -> [ret |-> None, val |-> "ReadySome", keep |-> None]
    ELSE [ret |-> None, val |-> "ReadyNone", keep |-> None]

\* What became of the DeliveryFuture that poll took: dropped unresolved, or
\* resolved and consumed.
Fate(fres) == IF fres = "NotReady" THEN "dropped" ELSE "observed"

\* What poll does once the inner stream has given msg: the message is sent
\* and the future stored in self.outstanding.
OnMessage(ds, msg) ==
    LET sent == send(ds, msg)
    IN [deliveries |-> sent, outstanding |-> Some(Len(sent)), ret |-> "NotReady"]

\* Variant: a poll of the inner stream that is not ready swallows the message
\* that was about to arrive.
InnerAfterLosesUnready(in, ires) ==
    IF ires \in {"ReadySome", "Err"} \/ (ires = "NotReady" /\ in # <<>>)
    THEN Tail(in) ELSE in
\* What a call of poll that polls the inner stream does to it.
InnerAfter(in, ires) == IF ires \in {"ReadySome", "Err"} THEN Tail(in) ELSE in
AvailAfter(av, ires) == IF ires \in {"ReadySome", "Err"} THEN FALSE ELSE av

\* Variant: the constructor pulls the first message and sends it.
InitPrimed ==
    \E s \in Scripts :
        /\ s # <<>>
        /\ Head(s) \in Msgs
        /\ inner = Tail(s)
        /\ avail \in BOOLEAN
        /\ pulled = <<Head(s)>>
        /\ deliveries = send(<<>>, Head(s))
        /\ outstanding = Some(1)
        /\ calls = <<>>

\* Writer::new: the stream is stored, nothing is outstanding, and neither the
\* stream nor the producer has been used.
Init ==
    /\ inner \in Scripts
    /\ avail \in BOOLEAN
    /\ outstanding = None
    /\ deliveries = <<>>
    /\ pulled = <<>>
    /\ calls = <<>>

\* Writer::poll, one whole call.
poll ==
    /\ Len(calls) < MaxCalls
    /\ LET taken == outstanding
           fres == IF taken # None THEN FPoll(deliveries[taken[1]].status)
                   ELSE "NotPolled"
           ready == OutstandingReady(taken, fres)
           ds1 == IF taken # None
                  THEN [deliveries EXCEPT ![taken[1]].fate = Fate(fres)]
                  ELSE deliveries
           call == [entry |-> taken, f |-> fres, inner |-> "NotPolled",
                    sent |-> None, heldAtSend |-> None, after |-> ready.keep,
                    ret |-> "NotReady"]
       IN IF ready.ret # None
          THEN \* try_ready!(f.poll()) returned from poll
               /\ outstanding' = ready.keep
               /\ deliveries' = ds1
               /\ calls' = Append(calls, [call EXCEPT !.ret = ready.ret[1]])
               /\ UNCHANGED <<inner, avail, pulled>>
          ELSE IF ready.val # "ReadyNone"
          THEN \* try_ready!(outstanding_ready) returned, or Some((p, o))
               /\ outstanding' = ready.keep
               /\ deliveries' = ds1
               /\ calls' = Append(calls, [call EXCEPT !.ret = ready.val])
               /\ UNCHANGED <<inner, avail, pulled>>
          ELSE LET ires == InnerPoll(inner, avail)
               IN /\ inner' = InnerAfter(inner, ires)
                  /\ avail' = AvailAfter(avail, ires)
                  /\ IF ires = "ReadySome"
                     THEN LET msg == Head(inner)
                              on == OnMessage(ds1, msg)
                          IN /\ pulled' = Append(pulled, msg)
                             /\ deliveries' = on.deliveries
                             /\ outstanding' = on.outstanding
                             /\ calls' = Append(calls,
                                   [call EXCEPT !.inner = ires,
                                                !.sent = Some(Len(on.deliveries)),
                                                !.heldAtSend = ready.keep,
                                                !.after = on.outstanding,
                                                !.ret = on.ret])
                     ELSE /\ outstanding' = ready.keep
                          /\ deliveries' = ds1
                          /\ calls' = Append(calls,
                                [call EXCEPT !.inner = ires, !.ret = ires])
                          /\ UNCHANGED pulled

\* The inner stream gets its next event ready (a message arrives, the sender
\* closes, an error is raised).
UpstreamReady ==
    /\ ~avail
    /\ avail' = TRUE
    /\ UNCHANGED <<inner, outstanding, deliveries, pulled, calls>>

\* The producer resolves a delivery in flight, whether or not its
\* DeliveryFuture still exists.
Resolve(i, status) ==
    /\ deliveries[i].status = "InFlight"
    /\ deliveries' = [deliveries EXCEPT ![i].status = status]
    /\ UNCHANGED <<inner, avail, outstanding, pulled, calls>>

DeliverOk == \E i \in 1..Len(deliveries) : Resolve(i, "Delivered")
DeliverFail == \E i \in 1..Len(deliveries) : Resolve(i, "Failed")
\* The sending half of a DeliveryFuture is dropped without a result.
Cancel == \E i \in 1..Len(deliveries) : Resolve(i, "Canceled")

Next == poll \/ UpstreamReady \/ DeliverOk \/ DeliverFail \/ Cancel

Spec == Init /\ [][Next]_vars

(***************************************************************************)
(* Properties                                                              *)
(***************************************************************************)

\* The last completed call of poll (there is one).
last == calls[Len(calls)]
Called == Len(calls) > 0
\* The number of calls so far that returned r.
Count(r) == Cardinality({k \in 1..Len(calls) : calls[k].ret = r})
\* The payload of delivery i.
Payload(i) == deliveries[i].record.payload
\* The last call is the first one to return End.
FirstEnd ==
    /\ Called
    /\ last.ret = End
    /\ \A k \in 1..(Len(calls) - 1) : calls[k].ret # End
\* The inner stream has raised no error so far.
NoUpstreamErr == \A k \in 1..Len(calls) : calls[k].inner # "Err"

\* C1: a record is sent only after the outcome of every record sent before
\* it has been observed by poll, so at most one delivery is unobserved.
C1_OneInFlight ==
    \A i \in 1..Len(deliveries) :
        i < Len(deliveries) => deliveries[i].fate = "observed"

\* C2: a call of poll that finds the outstanding future not ready returns
\* NotReady, still holds the same future afterwards, polls no inner stream
\* and sends nothing.
C2_UnresolvedIsNoOp ==
    \A k \in 1..Len(calls) :
        (calls[k].entry # None /\ calls[k].f = "NotReady") =>
            /\ calls[k].ret = Suspend
            /\ calls[k].after = calls[k].entry
            /\ calls[k].inner = "NotPolled"
            /\ calls[k].sent = None

\* C3: when the inner stream gave N messages and then ended, and every
\* delivery succeeded, poll has returned exactly N Yields and no Fail by the
\* time it first returns End.
C3_AllDeliveredYieldsN ==
    (/\ FirstEnd
     /\ NoUpstreamErr
     /\ \A i \in 1..Len(deliveries) : deliveries[i].status = "Delivered")
    => /\ Count(Yield) = Len(pulled)
       /\ Count(Fail) = 0

\* C4: when the inner stream gave N messages and then ended, and M of the
\* deliveries failed (1 <= M < N) while the others succeeded, poll has
\* returned exactly N - M Yields and no Fail by the time it first returns End.
C4_FailedDeliveriesShortTheCount ==
    LET failed == {i \in 1..Len(deliveries) : deliveries[i].status = "Failed"}
    IN (/\ FirstEnd
        /\ NoUpstreamErr
        /\ \A i \in 1..Len(deliveries) :
               deliveries[i].status \in {"Delivered", "Failed"}
        /\ Cardinality(failed) >= 1
        /\ Cardinality(failed) < Len(pulled))
       => /\ Count(Yield) + Cardinality(failed) = Len(pulled)
          /\ Count(Fail) = 0

\* C5: the Writer holds at most one DeliveryFuture, the one in
\* self.outstanding, and every call of poll that sends a record has
\* self.outstanding empty when it sends.
C5_AtMostOnePending ==
    LET held == {i \in 1..Len(deliveries) : deliveries[i].fate = "held"}
    IN /\ Len(outstanding) <= 1
       /\ Cardinality(held) <= 1
       /\ held = Range(outstanding)
       /\ \A k \in 1..Len(calls) :
              calls[k].sent # None =>
                  calls[k].entry = None /\ calls[k].heldAtSend = None
C5_Witness ==
    /\ Called
    /\ last.sent # None
    /\ Len(deliveries) >= 2
    /\ \E k \in 1..Len(calls) : calls[k].f = "ReadyErr"

\* C6: the payloads of the records sent so far are the messages pulled from
\* the inner stream so far, in the same order, each once.
C6_SubmittedEqualsPulled ==
    /\ Len(deliveries) = Len(pulled)
    /\ \A i \in 1..Len(deliveries) : Payload(i) = Some(pulled[i])
    /\ \A i, j \in 1..Len(deliveries) : i # j => Payload(i) # Payload(j)
C6_Witness ==
    /\ Len(pulled) >= 3
    /\ \E i \in 1..Len(deliveries) : deliveries[i].status = "Failed"
    /\ \E k \in 1..Len(calls) : calls[k].f = "NotReady"
    /\ \E k \in 1..Len(calls) : calls[k].inner = "NotReady"

\* C7: a call of poll that finds the outstanding delivery failed clears
\* self.outstanding, returns NotReady, polls no inner stream and sends
\* nothing; no later call sends the failed message again, and the next call
\* polls the inner stream.
C7_FailureSwallowed ==
    \A k \in 1..Len(calls) :
        (calls[k].entry # None /\ calls[k].f = "ReadyErr") =>
            /\ calls[k].ret = Suspend
            /\ calls[k].after = None
            /\ calls[k].inner = "NotPolled"
            /\ calls[k].sent = None
            /\ k < Len(calls) => calls[k + 1].inner # "NotPolled"
            /\ \A j \in (k + 1)..Len(calls) :
                   calls[j].sent # None =>
                       Payload(calls[j].sent[1]) # Payload(calls[k].entry[1])
C7_Witness ==
    \E k \in 1..(Len(calls) - 1) :
        /\ calls[k].f = "ReadyErr"
        /\ calls[k + 1].sent # None

\* C8: after poll has returned End or Fail, no later call polls the inner
\* stream or sends a record.
C8_TerminalIsFinal ==
    \A k \in 1..Len(calls) :
        (\E j \in 1..(k - 1) : calls[j].ret \in {End, Fail}) =>
            /\ calls[k].inner = "NotPolled"
            /\ calls[k].sent = None

\* C9: when the inner stream raises an error after K messages, poll has
\* returned at most K Yields before the Fail of that call, and that call is
\* the last: nothing is returned after it.
C9_UpstreamErrorIsLast ==
    \A k \in 1..Len(calls) :
        calls[k].inner = "Err" =>
            /\ calls[k].ret = Fail
            /\ k = Len(calls)
            /\ Count(Yield) <= Len(pulled)
            /\ Count(Fail) = 1

Observations(i) ==
    {k \in 1..Len(calls) :
        calls[k].entry = Some(i) /\ calls[k].f \in {"ReadyOk", "ReadyErr"}}
\* The number of messages the inner stream has given up to call k.
PulledBy(k) == Cardinality({j \in 1..k : calls[j].inner = "ReadySome"})

\* C11: the outcome of every record sent is observed by exactly one call of
\* poll: no DeliveryFuture is given up unresolved, none is observed twice,
\* and by the time poll first returns End every resolved delivery has been
\* observed once.
C11_OutcomeConsumedOnce ==
    \A i \in 1..Len(deliveries) :
        /\ deliveries[i].fate # "dropped"
        /\ Cardinality(Observations(i)) <= 1
        /\ (FirstEnd /\ deliveries[i].status \in {"Delivered", "Failed"}) =>
               Cardinality(Observations(i)) = 1

\* C12: poll returns End only in a call that found self.outstanding empty and
\* in which the inner stream ended, and when it does, the outcome of every
\* record sent has been observed.
C12_EndOnlyWhenAllObserved ==
    (Called /\ last.ret = End) =>
        /\ last.entry = None
        /\ last.inner = "ReadyNone"
        /\ \A i \in 1..Len(deliveries) : deliveries[i].fate = "observed"

\* C13: a call of poll that finds self.outstanding empty and gets a message
\* from the inner stream sends exactly one record, with the topic, the key
\* generated from the message and the message as payload, stores its future
\* in self.outstanding and returns NotReady.
C13_MessageIsSentOnce ==
    /\ Len(deliveries) = Len(pulled)
    /\ \A k \in 1..Len(calls) :
           (calls[k].entry = None /\ calls[k].inner = "ReadySome") =>
               /\ calls[k].sent = Some(PulledBy(k))
               /\ deliveries[PulledBy(k)].record =
                      [topic |-> Topic,
                       key |-> Some(generate(pulled[PulledBy(k)])),
                       payload |-> Some(pulled[PulledBy(k)])]
               /\ calls[k].after = calls[k].sent
               /\ calls[k].ret = Suspend
C13_Witness ==
    /\ Called
    /\ last.entry = None
    /\ last.inner = "ReadySome"
    /\ last.sent = Some(2)
    /\ outstanding = Some(2)

\* C14: poll returns Yield in exactly the calls that found the outstanding
\* delivery delivered; such a call clears self.outstanding, polls no inner
\* stream and sends nothing.
C14_YieldIffDelivered ==
    \A k \in 1..Len(calls) :
        /\ calls[k].ret = Yield <=>
               (calls[k].entry # None /\ calls[k].f = "ReadyOk")
        /\ calls[k].ret = Yield =>
               /\ calls[k].after = None
               /\ calls[k].inner = "NotPolled"
               /\ calls[k].sent = None
C14_Witness ==
    /\ \E k \in 1..Len(calls) : calls[k].ret = Yield /\ calls[k].f = "ReadyOk"
    /\ \E k \in 1..Len(calls) : calls[k].f = "ReadyErr"
    /\ outstanding = None

\* C15: a call of poll that finds self.outstanding empty and the inner stream
\* not ready returns NotReady, sends nothing and changes neither the Writer
\* nor the inner stream, so the message that arrives later is still there to
\* be pulled and sent.
C15_UnreadyUpstreamIsNoOp ==
    [][(/\ Len(calls') > Len(calls)
        /\ outstanding = None
        /\ calls'[Len(calls')].inner = "NotReady")
       => /\ calls'[Len(calls')].ret = Suspend
          /\ calls'[Len(calls')].sent = None
          /\ outstanding' = None
          /\ UNCHANGED <<inner, avail, deliveries, pulled>>]_vars
C15_Witness ==
    \E k \in 1..Len(calls) :
        /\ calls[k].entry = None
        /\ calls[k].inner = "NotReady"
        /\ \E j \in (k + 1)..Len(calls) : calls[j].sent # None

\* C16: every call of poll polls exactly one of the two: the outstanding
\* future when there is one, the inner stream when there is none; a call
\* that finds a future outstanding pulls nothing from the inner stream.
C16_OneCollaboratorPerCall ==
    /\ PulledBy(Len(calls)) = Len(pulled)
    /\ \A k \in 1..Len(calls) :
           /\ calls[k].entry # None =>
                  calls[k].f # "NotPolled" /\ calls[k].inner = "NotPolled"
           /\ calls[k].entry = None =>
                  calls[k].f = "NotPolled" /\ calls[k].inner # "NotPolled"
C16_Witness ==
    /\ \E k \in 1..Len(calls) : calls[k].entry # None /\ calls[k].f = "ReadyErr"
    /\ \E k \in 1..Len(calls) : calls[k].entry # None /\ calls[k].f = "ReadyOk"
    /\ \E k \in 1..Len(calls) : calls[k].entry = None /\ calls[k].inner = "ReadyNone"

\* C17: every call of poll that returns NotReady polled the outstanding
\* future or the inner stream and was told NotReady by it, so that the task
\* is woken when that source becomes ready.
C17_SuspendHasWakeUp ==
    \A k \in 1..Len(calls) :
        calls[k].ret = Suspend =>
            calls[k].f = "NotReady" \/ calls[k].inner = "NotReady"

\* C18: the Yields returned are as many as the deliveries observed
\* delivered, which are at most the records sent, which are as many as the
\* messages pulled; and the records sent are the outcomes observed, plus one
\* when a future is outstanding.
C18_Counters ==
    LET ok == {i \in 1..Len(deliveries) :
                  \E k \in Observations(i) : calls[k].f = "ReadyOk"}
        observed == {i \in 1..Len(deliveries) : deliveries[i].fate = "observed"}
    IN /\ Count(Yield) = Cardinality(ok)
       /\ Cardinality(ok) <= Len(deliveries)
       /\ Len(deliveries) = Len(pulled)
       /\ Len(deliveries) =
              Cardinality(observed) + (IF outstanding = None THEN 0 ELSE 1)

\* C19: before the first call of poll the Writer has nothing outstanding, no
\* record has been sent and no message pulled from the inner stream; every
\* record is sent inside a call of poll.
C19_ConstructionIsInert ==
    /\ ~Called => (outstanding = None /\ deliveries = <<>> /\ pulled = <<>>)
    /\ \A i \in 1..Len(deliveries) :
           \E k \in 1..Len(calls) : calls[k].sent = Some(i)
C19_Witness ==
    /\ Len(calls) = 1
    /\ calls[1].sent = Some(1)
    /\ Len(deliveries) = 1

====
